---- MODULE Spec2Model ----
(***************************************************************************)
(* Macros: generation of "macro" configurations by a hosted language model *)
(* and their validation.  Three classes are modelled:                      *)
(*   MacroAssistant            src/classes/macro_assistant.py              *)
(*   MacroGenerator (classes)  src/classes/macro_generator.py              *)
(*   MacroGenerator (script)   src/macro_generator.py                      *)
(* Text is a sequence of one-character strings; a parsed JSON document is  *)
(* a tagged record.                                                        *)
(***************************************************************************)
EXTENDS Integers, Sequences, FiniteSets, TLC

VARIABLES
    thread,     \* MacroAssistant.thread: id of the thread last created, 0 = None
    pc,         \* per generate_macro call on the MacroAssistant: position in the method
    run,        \* per call: the local `run` (id of the run it created, 0 = unset)
    seen,       \* per call: the status the last poll observed ("" = none yet)
    received,   \* per call: response_content, as an index of ResponseText (0 = unset)
    log,        \* per call: the backend requests it made, as <<operation, thread_id>>
    outcome,    \* per call: what generate_macro returned or raised
    threads,    \* backend: per thread id, the assistant messages on it, newest first
    runs,       \* backend: per run id, [thread, status, resp]
    gen,        \* per MacroGenerator object: state of its generate_macro call
    vdoc,       \* pure-function harness: the document handed to a validator
    vwho,       \* pure-function harness: which validator is applied
    vres,       \* pure-function harness: results of the first and second application
    ftext,      \* fence harness: the JSON text J
    fresp,      \* fence harness: the backend response built around J
    fres        \* fence harness: per class, what parsing the response gave

vars == <<thread, pc, run, seen, received, log, outcome, threads, runs, gen,
          vdoc, vwho, vres, ftext, fresp, fres>>

----------------------------------------------------------------------------
(* Text helpers: Python str methods used by generate_macro.                *)

\* Characters removed by str.strip() with no argument (ASCII whitespace).
PyWs == {" ", "\n", "\t", "\r", "\f"}

\* Characters json.loads skips between tokens.
JsonWs == {" ", "\n", "\t", "\r"}

Drop(s, n) == SubSeq(s, n + 1, Len(s))

\* str.startswith
StartsWith(s, p) == Len(s) >= Len(p) /\ SubSeq(s, 1, Len(p)) = p

\* str.endswith
EndsWith(s, p) == Len(s) >= Len(p) /\ SubSeq(s, Len(s) - Len(p) + 1, Len(s)) = p

\* str.strip(): leading and trailing whitespace removed.
Strip(s) ==
    LET first == CHOOSE i \in 1..(Len(s) + 1) :
                    /\ \A j \in 1..(i - 1) : s[j] \in PyWs
                    /\ (i = Len(s) + 1 \/ s[i] \notin PyWs)
        last  == CHOOSE i \in 0..Len(s) :
                    /\ \A j \in (i + 1)..Len(s) : s[j] \in PyWs
                    /\ (i = 0 \/ s[i] \notin PyWs)
    IN  IF first > last THEN << >> ELSE SubSeq(s, first, last)

\* The grave accent, which a string literal of this language cannot hold, is
\* written as the one-character token "TICK".
Tick == "TICK"

\* The markers "```" and "```json" of lines 96-100.
Fence3 == <<Tick, Tick, Tick>>
FenceJson == <<Tick, Tick, Tick, "j", "s", "o", "n">>

----------------------------------------------------------------------------
(* Parsed JSON documents (the Python objects json.loads builds).           *)

JNull == [t |-> "null"]
JBool(b) == [t |-> "bool", b |-> b]
JNum(lit) == [t |-> "num", lit |-> lit]
JStr(s) == [t |-> "str", s |-> s]
JList(elems) == [t |-> "list", elems |-> elems]
\* A dict keeps its keys in insertion order: a sequence of [k, v] items.
JDict(items) == [t |-> "dict", items |-> items]

\* isinstance(x, dict)
IsDict(x) == x.t = "dict"

\* key in d
HasKey(d, k) == \E i \in 1..Len(d.items) : d.items[i].k = k

\* d[k] = v on a dict's items: a key already present keeps its place.
DictPut(items, k, v) ==
    IF \E i \in 1..Len(items) : items[i].k = k
    THEN [i \in 1..Len(items) |->
             IF items[i].k = k THEN [k |-> k, v |-> v] ELSE items[i]]
    ELSE Append(items, [k |-> k, v |-> v])

----------------------------------------------------------------------------
(* json.loads on texts over the model's alphabet: objects, arrays, strings *)
(* without escapes, numbers, and the literals null, true and false.        *)

Digits == {"0", "1", "2", "3", "4", "5", "6", "7", "8", "9"}

Fail(i) == [ok |-> FALSE, val |-> JNull, pos |-> i]
Ok(v, i) == [ok |-> TRUE, val |-> v, pos |-> i]

At(s, i) == IF i >= 1 /\ i <= Len(s) THEN s[i] ELSE "EOF"

\* Whether text s holds the characters of lit from index i on.
Match(s, i, lit) == i + Len(lit) - 1 <= Len(s) /\ SubSeq(s, i, i + Len(lit) - 1) = lit

\* Index of the first character at or after i that is not JSON whitespace.
SkipWs(s, i) ==
    IF i > Len(s) THEN i ELSE
    CHOOSE j \in i..(Len(s) + 1) :
        /\ \A k \in i..(j - 1) : s[k] \in JsonWs
        /\ (j = Len(s) + 1 \/ s[j] \notin JsonWs)

\* Index just after the run of digits starting at i (i itself when there is none).
SkipDigits(s, i) ==
    IF i > Len(s) THEN i ELSE
    CHOOSE j \in i..(Len(s) + 1) :
        /\ \A k \in i..(j - 1) : s[k] \in Digits
        /\ (j = Len(s) + 1 \/ s[j] \notin Digits)

\* A number -?(0|[1-9][0-9]*)(\.[0-9]+)?([eE][-+]?[0-9]+)? starting at i.
ParseNumber(s, i) ==
    LET a == IF At(s, i) = "-" THEN i + 1 ELSE i
        b == IF At(s, a) = "0" THEN a + 1 ELSE SkipDigits(s, a)
        c == IF At(s, b) = "." /\ SkipDigits(s, b + 1) > b + 1
             THEN SkipDigits(s, b + 1) ELSE b
        e == IF At(s, c) \in {"e", "E"}
             THEN (LET f == IF At(s, c + 1) \in {"+", "-"} THEN c + 2 ELSE c + 1
                   IN  IF SkipDigits(s, f) > f THEN SkipDigits(s, f) ELSE c)
             ELSE c
    IN  IF b = a THEN Fail(i) ELSE Ok(JNum(SubSeq(s, i, e - 1)), e)

\* A string starting at the quote at i: up to the next quote; a raw control
\* character inside it is an error.
ParseString(s, i) ==
    IF \E j \in (i + 1)..Len(s) : s[j] = "\""
    THEN LET j == CHOOSE j \in (i + 1)..Len(s) :
                     s[j] = "\"" /\ \A k \in (i + 1)..(j - 1) : s[k] # "\""
             body == SubSeq(s, i + 1, j - 1)
         IN  IF \E k \in 1..Len(body) : body[k] \in {"\n", "\t", "\r", "\f"}
             THEN Fail(i) ELSE Ok(JStr(body), j + 1)
    ELSE Fail(i)

RECURSIVE ParseValue(_, _), ParseMembers(_, _, _), ParseElements(_, _, _)

\* The members of an object from index i (after "{" or ","), items so far in acc.
ParseMembers(s, i, acc) ==
    IF At(s, i) # "\"" THEN Fail(i) ELSE
    LET key == ParseString(s, i) IN
    IF ~key.ok THEN Fail(i) ELSE
    LET colon == SkipWs(s, key.pos) IN
    IF At(s, colon) # ":" THEN Fail(colon) ELSE
    LET v == ParseValue(s, SkipWs(s, colon + 1)) IN
    IF ~v.ok THEN v ELSE
    LET next == SkipWs(s, v.pos)
        items == DictPut(acc, key.val.s, v.val)
    IN  IF At(s, next) = "}" THEN Ok(JDict(items), next + 1)
        ELSE IF At(s, next) = "," THEN ParseMembers(s, SkipWs(s, next + 1), items)
        ELSE Fail(next)

\* The elements of an array from index i (after "[" or ","), elements so far in acc.
ParseElements(s, i, acc) ==
    LET v == ParseValue(s, i) IN
    IF ~v.ok THEN v ELSE
    LET next == SkipWs(s, v.pos)
        elems == Append(acc, v.val)
    IN  IF At(s, next) = "]" THEN Ok(JList(elems), next + 1)
        ELSE IF At(s, next) = "," THEN ParseElements(s, SkipWs(s, next + 1), elems)
        ELSE Fail(next)

\* One JSON value starting at index i.
ParseValue(s, i) ==
    LET ch == At(s, i) IN
    IF ch = "{" THEN
        (LET j == SkipWs(s, i + 1)
         IN  IF At(s, j) = "}" THEN Ok(JDict(<< >>), j + 1)
             ELSE ParseMembers(s, j, << >>))
    ELSE IF ch = "[" THEN
        (LET j == SkipWs(s, i + 1)
         IN  IF At(s, j) = "]" THEN Ok(JList(<< >>), j + 1)
             ELSE ParseElements(s, j, << >>))
    ELSE IF ch = "\"" THEN ParseString(s, i)
    ELSE IF ch \in Digits \cup {"-"} THEN ParseNumber(s, i)
    ELSE IF Match(s, i, <<"n", "u", "l", "l">>) THEN Ok(JNull, i + 4)
    ELSE IF Match(s, i, <<"t", "r", "u", "e">>) THEN Ok(JBool(TRUE), i + 4)
    ELSE IF Match(s, i, <<"f", "a", "l", "s", "e">>) THEN Ok(JBool(FALSE), i + 5)
    ELSE Fail(i)

\* json.loads(s): one value with optional whitespace around it and nothing else;
\* ok = FALSE stands for json.JSONDecodeError.
Loads(s) ==
    LET r == ParseValue(s, SkipWs(s, 1)) IN
    IF ~r.ok THEN r
    ELSE IF SkipWs(s, r.pos) = Len(s) + 1 THEN r
    ELSE Fail(SkipWs(s, r.pos))

----------------------------------------------------------------------------
(* What a method call ends with: a returned document or a raised error.    *)

NoDoc == [t |-> "none"]

\* return d
Returned(d) == [kind |-> "return", doc |-> d, msg |-> "", field |-> << >>]

\* raise ValueError(msg), msg naming the field when the source's message does
Raised(msg, field) == [kind |-> "ValueError", doc |-> NoDoc, msg |-> msg, field |-> field]

\* next(...) on an exhausted generator
StopIteration == [kind |-> "StopIteration", doc |-> NoDoc, msg |-> "", field |-> << >>]

\* No result yet.
Pending == [kind |-> "pending", doc |-> NoDoc, msg |-> "", field |-> << >>]

K_macro == <<"m", "a", "c", "r", "o">>
K_kwargs == <<"k", "w", "a", "r", "g", "s">>

----------------------------------------------------------------------------
(* MacroAssistant._validate_macro                                          *)

RECURSIVE AssistantCheckFields(_, _)

\* The loop over macro_config.items() from item i on; the document itself
\* is returned after the last item.
AssistantCheckFields(d, i) ==
    IF i > Len(d.items) THEN Returned(d)
    ELSE LET field_name == d.items[i].k
             config == d.items[i].v
         IN  IF ~IsDict(config)
             THEN Raised("Configuration for field must be a dictionary", field_name)
             ELSE IF ~HasKey(config, K_macro)
             THEN Raised("Configuration for field must contain a 'macro' field", field_name)
             ELSE IF ~HasKey(config, K_kwargs)
             THEN Raised("Configuration for field must contain a 'kwargs' field", field_name)
             ELSE AssistantCheckFields(d, i + 1)

RECURSIVE AssistantCheckFieldsNoKwargs(_, _)

\* The loop without its 'kwargs' test.
AssistantCheckFieldsNoKwargs(d, i) ==
    IF i > Len(d.items) THEN Returned(d)
    ELSE LET field_name == d.items[i].k
             config == d.items[i].v
         IN  IF ~IsDict(config)
             THEN Raised("Configuration for field must be a dictionary", field_name)
             ELSE IF ~HasKey(config, K_macro)
             THEN Raised("Configuration for field must contain a 'macro' field", field_name)
             ELSE AssistantCheckFieldsNoKwargs(d, i + 1)

\* _validate_macro that forgets the 'kwargs' test.
ValidateWithoutKwargsTest(macro_config) ==
    IF ~IsDict(macro_config)
    THEN Raised("Generated macro must be a dictionary", << >>)
    ELSE AssistantCheckFieldsNoKwargs(macro_config, 1)

\* _validate_macro that returns the loop variable `config` (the last field's
\* configuration) instead of macro_config.
ValidateReturningLastConfig(macro_config) ==
    LET r == IF ~IsDict(macro_config)
             THEN Raised("Generated macro must be a dictionary", << >>)
             ELSE AssistantCheckFields(macro_config, 1)
    IN  IF r.kind = "return" /\ Len(macro_config.items) > 0
        THEN Returned(macro_config.items[Len(macro_config.items)].v)
        ELSE r

MacroAssistant_validate_macro(macro_config) ==
    IF ~IsDict(macro_config)
    THEN Raised("Generated macro must be a dictionary", << >>)
    ELSE AssistantCheckFields(macro_config, 1)

----------------------------------------------------------------------------
(* classes.MacroGenerator._validate_macro                                  *)

RECURSIVE GeneratorCheckFields(_, _)

GeneratorCheckFields(d, i) ==
    IF i > Len(d.items) THEN Returned(d)
    ELSE LET field_name == d.items[i].k
             config == d.items[i].v
         IN  IF ~IsDict(config)
             THEN Raised("Configuration for field must be a dictionary", field_name)
             ELSE IF ~HasKey(config, K_macro)
             THEN Raised("Configuration for field must contain a 'macro' field", field_name)
             ELSE IF ~HasKey(config, K_kwargs)
             THEN Raised("Configuration for field must contain a 'kwargs' field", field_name)
             ELSE GeneratorCheckFields(d, i + 1)

ClassesGenerator_validate_macro(macro_config) ==
    IF ~IsDict(macro_config)
    THEN Raised("Generated macro must be a dictionary", << >>)
    ELSE GeneratorCheckFields(macro_config, 1)

----------------------------------------------------------------------------
(* MacroGenerator._validate_macro of the script src/macro_generator.py     *)

ScriptGenerator_validate_macro(macro_config) ==
    IF ~IsDict(macro_config)
    THEN Raised("Generated macro must be a dictionary", << >>)
    ELSE IF ~HasKey(macro_config, K_macro)
    THEN Raised("Generated macro must contain a 'macro' field", << >>)
    ELSE Returned(macro_config)

----------------------------------------------------------------------------
(* From the response text to the result of generate_macro.                 *)

\* MacroAssistant.generate_macro: the markdown code-block syntax removed.
CleanResponse(response_content) ==
    LET a == Strip(response_content)
        b == IF StartsWith(a, FenceJson) THEN Drop(a, 7) ELSE a
        c == IF StartsWith(b, Fence3) THEN Drop(b, 3) ELSE b
        d == IF EndsWith(c, Fence3) THEN SubSeq(c, 1, Len(c) - 3) ELSE c
    IN  Strip(d)

\* MacroAssistant.generate_macro: json.loads(cleaned_response)
AssistantLoad(response_content) == Loads(CleanResponse(response_content))

\* classes.MacroGenerator.generate_macro: json.loads(response...content)
ClassesGeneratorLoad(content) == Loads(content)

\* MacroGenerator.generate_macro of the script: json.loads(raw_response)
ScriptGeneratorLoad(raw_response) == Loads(raw_response)

\* The try block of MacroAssistant.generate_macro after json.loads gave `loaded`:
\* the validator's result, or the ValueError raised for a JSONDecodeError.
AssistantTry(loaded) ==
    IF loaded.ok THEN MacroAssistant_validate_macro(loaded.val)
    ELSE Raised("Failed to parse assistant response as JSON. Please try again.", << >>)

\* The try block of classes.MacroGenerator.generate_macro after json.loads
ClassesGeneratorTry(loaded) ==
    IF loaded.ok THEN ClassesGenerator_validate_macro(loaded.val)
    ELSE Raised("Failed to generate valid macro configuration", << >>)

\* The try block of MacroGenerator.generate_macro of the script after json.loads
ScriptGeneratorTry(loaded) ==
    IF loaded.ok THEN ScriptGenerator_validate_macro(loaded.val)
    ELSE Raised("Failed to generate valid macro configuration", << >>)

----------------------------------------------------------------------------
(* The generation backend's possible response texts.                       *)

Quote(s) == <<"\"">> \o s \o <<"\"">>

ExtractPath == <<"s", "t", "a", "n", "d", "a", "r", "d", "_", "m", "a", "c", "r", "o", "s",
                 ".", "e", "x", "t", "r", "a", "c", "t", "_", "p", "a", "t", "h">>
K_expr == <<"e", "x", "p", "r">>
FirstName == <<"f", "i", "r", "s", "t", "_", "n", "a", "m", "e">>
PathAB == <<"a", ".", "b">>

\* {"macro":"standard_macros.extract_path","kwargs":{"expr":"a.b"}}
InvocationText ==
    <<"{">> \o Quote(K_macro) \o <<":">> \o Quote(ExtractPath) \o <<",">>
    \o Quote(K_kwargs) \o <<":", "{">> \o Quote(K_expr) \o <<":">> \o Quote(PathAB)
    \o <<"}", "}">>

\* {"first_name": <InvocationText>}, the format the classes ask for
ConfigText == <<"{">> \o Quote(FirstName) \o <<":">> \o InvocationText \o <<"}">>

\* The same inside a markdown code block tagged json.
FencedConfigText == FenceJson \o <<"\n">> \o ConfigText \o <<"\n">> \o Fence3

\* {"macro":"standard_macros.extract_path"}: an invocation without kwargs
MacroOnlyText == <<"{">> \o Quote(K_macro) \o <<":">> \o Quote(ExtractPath) \o <<"}">>

\* Prose around the JSON: not a JSON document.
ProseText == <<"S", "u", "r", "e", ":", " ", "{", "}">>

ResponseText == <<ConfigText, FencedConfigText, MacroOnlyText, ProseText>>
ResponseIds == 1..Len(ResponseText)

----------------------------------------------------------------------------
(* MacroAssistant.generate_macro, one backend request per step, and the    *)
(* backend's threads and runs.                                             *)

Calls == {"c1", "c2"}

\* Polls that observe an unfinished run are counted up to this bound.
MaxPolls == 2

Terminal == {"completed", "failed", "cancelled", "expired"}

Logged(c, op, t) == [log EXCEPT ![c] = Append(@, <<op, t>>)]

\* Number of runs.retrieve requests call c has made.
Polls(c) == Len(SelectSeq(log[c], LAMBDA e : e[1] = "runs.retrieve"))

\* self.thread = self.client.beta.threads.create()
CreateThread(c) ==
    /\ pc[c] = "start"
    /\ threads' = Append(threads, << >>)
    /\ thread' = Len(threads) + 1
    /\ log' = Logged(c, "threads.create", Len(threads) + 1)
    /\ pc' = [pc EXCEPT ![c] = "post"]
    /\ UNCHANGED <<run, seen, received, outcome, runs, gen, vdoc, vwho, vres, ftext, fresp, fres>>

\* self.client.beta.threads.messages.create(thread_id=self.thread.id, ...)
PostMessage(c) ==
    /\ pc[c] = "post"
    /\ threads' = [threads EXCEPT ![thread] = Append(@, [role |-> "user", resp |-> 0])]
    /\ log' = Logged(c, "messages.create", thread)
    /\ pc' = [pc EXCEPT ![c] = "run"]
    /\ UNCHANGED <<thread, run, seen, received, outcome, runs, gen, vdoc, vwho, vres, ftext, fresp, fres>>

\* run = self.client.beta.threads.runs.create(thread_id=self.thread.id, ...)
CreateRun(c) ==
    /\ pc[c] = "run"
    /\ runs' = Append(runs, [thread |-> thread, status |-> "queued"])
    /\ run' = [run EXCEPT ![c] = Len(runs) + 1]
    /\ log' = Logged(c, "runs.create", thread)
    /\ pc' = [pc EXCEPT ![c] = "poll"]
    /\ UNCHANGED <<thread, seen, received, outcome, threads, gen, vdoc, vwho, vres, ftext, fresp, fres>>

\* The branch on run_status.status that treats 'failed' as done.
PollBranchFailedBreaks(status) ==
    IF status \in {"completed", "failed"} THEN "list"
    ELSE IF status \in {"cancelled", "expired"} THEN "raised"
    ELSE "poll"

\* The branch on run_status.status without 'expired' in its list.
PollBranchWithoutExpired(status) ==
    IF status = "completed" THEN "list"
    ELSE IF status \in {"failed", "cancelled"} THEN "raised"
    ELSE "poll"

\* The branch on run_status.status: break, raise, or sleep and poll again.
PollBranch(status) ==
    IF status = "completed" THEN "list"
    ELSE IF status \in {"failed", "cancelled", "expired"} THEN "raised"
    ELSE "poll"

\* One turn of the while loop: runs.retrieve and the branch on the status.
Poll(c) ==
    /\ pc[c] = "poll"
    /\ LET status == runs[run[c]].status
       IN  /\ status \in Terminal \/ Polls(c) < MaxPolls
           /\ seen' = [seen EXCEPT ![c] = status]
           /\ pc' = [pc EXCEPT ![c] = PollBranch(status)]
           /\ outcome' = [outcome EXCEPT ![c] =
                 IF PollBranch(status) = "raised"
                 THEN Raised("Assistant run failed with status", << >>)
                 ELSE @]
    /\ log' = Logged(c, "runs.retrieve", thread)
    /\ UNCHANGED <<thread, run, received, threads, runs, gen, vdoc, vwho, vres, ftext, fresp, fres>>

\* json.loads(cleaned_response) for each response text of the backend.
AssistantLoaded == [i \in ResponseIds |-> AssistantLoad(ResponseText[i])]

\* What the try block ends with for each response text of the backend.
AssistantResult == [i \in ResponseIds |-> AssistantTry(AssistantLoaded[i])]

\* messages.list returns the newest message first; the assistant's messages of it.
AssistantMessages(t) ==
    LET n == Len(threads[t])
        newestFirst == [i \in 1..n |-> threads[t][n + 1 - i]]
    IN  SelectSeq(newestFirst, LAMBDA m : m.role = "assistant")

\* Where generate_macro goes on a parse failure when it tries again.
AfterParseRetrying(result) ==
    IF result.kind = "return" THEN "returned"
    ELSE IF result.msg = "Failed to parse assistant response as JSON. Please try again."
    THEN "start"
    ELSE "raised"

\* How the try block ends: with a return or with the error raised to the caller.
AfterParse(result) == IF result.kind = "return" THEN "returned" ELSE "raised"

\* messages.list, next(...) over the assistant's messages, and the try block.
ListMessages(c) ==
    /\ pc[c] = "list"
    /\ log' = Logged(c, "messages.list", thread)
    /\ \E msgs \in {AssistantMessages(thread)} :
          IF Len(msgs) = 0
          THEN /\ outcome' = [outcome EXCEPT ![c] = StopIteration]
               /\ pc' = [pc EXCEPT ![c] = "raised"]
               /\ UNCHANGED received
          ELSE /\ received' = [received EXCEPT ![c] = msgs[1].resp]
               /\ outcome' = [outcome EXCEPT ![c] = AssistantResult[msgs[1].resp]]
               /\ pc' = [pc EXCEPT ![c] = AfterParse(AssistantResult[msgs[1].resp])]
    /\ UNCHANGED <<thread, run, seen, threads, runs, gen, vdoc, vwho, vres, ftext, fresp, fres>>

\* The backend starts a queued run.
RunStarts(r) ==
    /\ runs[r].status = "queued"
    /\ runs' = [runs EXCEPT ![r].status = "in_progress"]
    /\ UNCHANGED <<thread, pc, run, seen, received, log, outcome, threads, gen,
                   vdoc, vwho, vres, ftext, fresp, fres>>

\* The backend completes a run: the assistant's message is added to the run's thread.
RunCompletes(r) ==
    /\ runs[r].status = "in_progress"
    /\ \E i \in ResponseIds :
          threads' = [threads EXCEPT ![runs[r].thread] =
                         Append(@, [role |-> "assistant", resp |-> i])]
    /\ runs' = [runs EXCEPT ![r].status = "completed"]
    /\ UNCHANGED <<thread, pc, run, seen, received, log, outcome, gen,
                   vdoc, vwho, vres, ftext, fresp, fres>>

\* The backend ends a run without completing it.
RunFails(r) ==
    /\ runs[r].status = "in_progress"
    /\ \E st \in {"failed", "cancelled", "expired"} :
          runs' = [runs EXCEPT ![r].status = st]
    /\ UNCHANGED <<thread, pc, run, seen, received, log, outcome, threads, gen,
                   vdoc, vwho, vres, ftext, fresp, fres>>

\* One step of one generate_macro call on the MacroAssistant.
CallStep(c) ==
    \/ CreateThread(c)
    \/ PostMessage(c)
    \/ CreateRun(c)
    \/ Poll(c)
    \/ ListMessages(c)

Backend ==
    \E r \in 1..Len(runs) : RunStarts(r) \/ RunCompletes(r) \/ RunFails(r)

----------------------------------------------------------------------------
(* generate_macro of the two MacroGenerator classes: one chat completion   *)
(* request, then the try block.                                            *)

Generators == {"script", "classes"}

\* json.loads of the completion's content
GeneratorLoad(g, text) ==
    IF g = "script" THEN ScriptGeneratorLoad(text) ELSE ClassesGeneratorLoad(text)

GeneratorTry(g, loaded) ==
    IF g = "script" THEN ScriptGeneratorTry(loaded) ELSE ClassesGeneratorTry(loaded)

\* json.loads of the content, for each generator and response text.
GeneratorLoaded ==
    [g \in Generators |-> [i \in ResponseIds |-> GeneratorLoad(g, ResponseText[i])]]

\* What the try block ends with, for each generator and response text.
GeneratorResult ==
    [g \in Generators |-> [i \in ResponseIds |-> GeneratorTry(g, GeneratorLoaded[g][i])]]

\* generate_macro: the request to chat.completions.create, whose response the
\* backend chooses, and the try block.
Generate(g) ==
    /\ gen[g].pc = "idle"
    /\ \E i \in ResponseIds :
          gen' = [gen EXCEPT ![g] =
                     [pc |-> AfterParse(GeneratorResult[g][i]),
                      requests |-> @.requests + 1,
                      content |-> i,
                      outcome |-> GeneratorResult[g][i]]]
    /\ UNCHANGED <<thread, pc, run, seen, received, log, outcome, threads, runs,
                   vdoc, vwho, vres, ftext, fresp, fres>>

----------------------------------------------------------------------------

HarnessIdle ==
    /\ vdoc = NoDoc /\ vwho = "none" /\ vres = << >>
    /\ ftext = << >> /\ fresp = << >> /\ fres = << >>

ProgramIdle ==
    /\ thread = 0
    /\ pc = [c \in Calls |-> "start"]
    /\ run = [c \in Calls |-> 0]
    /\ seen = [c \in Calls |-> ""]
    /\ received = [c \in Calls |-> 0]
    /\ log = [c \in Calls |-> << >>]
    /\ outcome = [c \in Calls |-> Pending]
    /\ threads = << >>
    /\ runs = << >>
    /\ gen = [g \in Generators |->
                 [pc |-> "idle", requests |-> 0, content |-> 0, outcome |-> Pending]]

Init == ProgramIdle /\ HarnessIdle

\* Two generate_macro calls on one MacroAssistant, and the backend.
Next ==
    \/ \E c \in Calls : CallStep(c)
    \/ Backend

Spec == Init /\ [][Next]_vars

\* Each call runs on a thread of the interpreter that keeps being scheduled.
LiveSpec == Init /\ [][Next]_vars /\ \A c \in Calls : WF_vars(CallStep(c))

----------------------------------------------------------------------------
(* One generate_macro call on the MacroAssistant and one on each           *)
(* MacroGenerator, with the backend.                                       *)

\* The one call of this specification.
SeqCalls == {"c1"}

SeqNext ==
    \/ \E c \in SeqCalls : CallStep(c)
    \/ Backend
    \/ \E g \in Generators : Generate(g)

SeqSpec == Init /\ [][SeqNext]_vars

----------------------------------------------------------------------------
(* The validators as pure functions: a document drawn from a bounded set   *)
(* is validated, and the validator is applied once more.                   *)

\* Largest number of top-level fields of a drawn document.
MaxFields == 2

UnknownMacro == <<"m", "a", "d", "e", "_", "u", "p", ".", "m", "a", "c", "r", "o">>

\* Sequences of at most n items with pairwise different keys.
ItemSeqs(items, n) ==
    UNION {{s \in [1..m -> items] :
               \A i \in 1..m : \A j \in 1..m : i < j => s[i].k # s[j].k} : m \in 0..n}

Scalars == {JNum(<<"1">>), JStr(ExtractPath), JStr(UnknownMacro), JList(<< >>)}
MacroValues == {JStr(ExtractPath), JStr(UnknownMacro)}
KwargsValues == {JDict(<< >>), JDict(<<[k |-> K_expr, v |-> JStr(PathAB)]>>)}

\* {}, {"macro": m}, {"kwargs": w} and {"macro": m, "kwargs": w}
Invocations ==
    {JDict(<< >>)}
    \cup {JDict(<<[k |-> K_macro, v |-> m]>>) : m \in MacroValues}
    \cup {JDict(<<[k |-> K_kwargs, v |-> w]>>) : w \in KwargsValues}
    \cup {JDict(<<[k |-> K_macro, v |-> m], [k |-> K_kwargs, v |-> w]>>) :
             m \in MacroValues, w \in KwargsValues}

FieldValues == Scalars \cup KwargsValues \cup Invocations

TopItems == {[k |-> key, v |-> v] : key \in {FirstName, K_macro, K_kwargs}, v \in FieldValues}

Docs == Scalars \cup {JDict(s) : s \in ItemSeqs(TopItems, MaxFields)}

Validators == {"assistant", "classes", "script"}

Validate(who, d) ==
    IF who = "assistant" THEN MacroAssistant_validate_macro(d)
    ELSE IF who = "classes" THEN ClassesGenerator_validate_macro(d)
    ELSE ScriptGenerator_validate_macro(d)

\* validate(c)
ValidateFirst ==
    /\ vres = << >>
    /\ vres' = <<Validate(vwho, vdoc)>>
    /\ UNCHANGED <<thread, pc, run, seen, received, log, outcome, threads, runs, gen,
                   vdoc, vwho, ftext, fresp, fres>>

\* validate applied to what validate(c) returned, or to c again after an error
ValidateAgain ==
    /\ Len(vres) = 1
    /\ vres' = Append(vres, Validate(vwho, IF vres[1].kind = "return"
                                           THEN vres[1].doc ELSE vdoc))
    /\ UNCHANGED <<thread, pc, run, seen, received, log, outcome, threads, runs, gen,
                   vdoc, vwho, ftext, fresp, fres>>

ValidateInit ==
    /\ ProgramIdle
    /\ vdoc \in Docs
    /\ vwho \in Validators
    /\ vres = << >>
    /\ ftext = << >> /\ fresp = << >> /\ fres = << >>

ValidateNext == ValidateFirst \/ ValidateAgain

ValidateSpec == ValidateInit /\ [][ValidateNext]_vars

----------------------------------------------------------------------------
(* The response of the backend as a JSON text J inside a markdown code     *)
(* block, handed to the parsing step of the two classes of src/classes.    *)

\* Largest length of a drawn JSON text.
MaxLen == 3

FenceChars == {Tick, "j", "{", "}", "[", "]", "\"", "1", " ", "\n"}

Texts == UNION {[1..n -> FenceChars] : n \in 0..MaxLen}

\* The texts that parse as a JSON document.
JsonTexts == {t \in Texts : Loads(t).ok}

\* J between an opening marker and a closing marker, with optional whitespace.
Fenced(J) ==
    {lead \o open \o sep1 \o J \o sep2 \o Fence3 \o trail :
        lead \in {<< >>, <<" ">>}, open \in {Fence3, FenceJson},
        sep1 \in {<< >>, <<"\n">>}, sep2 \in {<< >>, <<"\n">>},
        trail \in {<< >>, <<"\n">>}}

FenceClasses == {"assistant", "classes"}

FencePending == [ok |-> FALSE, val |-> NoDoc, pos |-> 0]

FenceLoad(k) ==
    /\ fres[k] = FencePending
    /\ fres' = [fres EXCEPT ![k] =
                   IF k = "assistant" THEN AssistantLoad(fresp)
                   ELSE ClassesGeneratorLoad(fresp)]
    /\ UNCHANGED <<thread, pc, run, seen, received, log, outcome, threads, runs, gen,
                   vdoc, vwho, vres, ftext, fresp>>

FenceInit ==
    /\ ProgramIdle
    /\ vdoc = NoDoc /\ vwho = "none" /\ vres = << >>
    /\ ftext \in JsonTexts
    /\ fresp \in Fenced(ftext)
    /\ fres = [k \in FenceClasses |-> FencePending]

FenceNext == \E k \in FenceClasses : FenceLoad(k)

FenceSpec == FenceInit /\ [][FenceNext]_vars

----------------------------------------------------------------------------
(* Properties.                                                             *)

Done(c) == pc[c] \in {"returned", "raised"}

\* The names of the backend requests call c made, in order.
Ops(c) == [i \in 1..Len(log[c]) |-> log[c][i][1]]

HasOp(c, op) == \E i \in 1..Len(log[c]) : log[c][i][1] = op

CountOp(c, op) == Cardinality({i \in 1..Len(log[c]) : log[c][i][1] = op})

\* A document in the format the classes of src/classes require: a mapping whose
\* every value is a mapping with the keys 'macro' and 'kwargs'.
WellFormed(d) ==
    /\ IsDict(d)
    /\ \A i \in 1..Len(d.items) :
          /\ IsDict(d.items[i].v)
          /\ HasKey(d.items[i].v, K_macro)
          /\ HasKey(d.items[i].v, K_kwargs)

\* d[k]
Get(d, k) == d.items[CHOOSE i \in 1..Len(d.items) : d.items[i].k = k].v

\* C1: MacroAssistant._validate_macro and classes.MacroGenerator._validate_macro
\* return the document they were given exactly when it is a mapping whose every
\* top-level value is a mapping holding both 'macro' and 'kwargs'; every other
\* document ends with a ValueError and no document.
C1_ValidatorContract ==
    (vwho \in {"assistant", "classes"} /\ Len(vres) >= 1) =>
        IF WellFormed(vdoc)
        THEN vres[1].kind = "return" /\ vres[1].doc = vdoc
        ELSE vres[1].kind = "ValueError" /\ vres[1].doc = NoDoc

\* A document with two well-formed fields was validated by the MacroAssistant
\* and one with a field lacking 'kwargs' would not reach this state.
C1_Witness ==
    /\ vwho = "assistant"
    /\ Len(vres) >= 1
    /\ WellFormed(vdoc)
    /\ Len(vdoc.items) >= 2
    /\ vres[1].kind = "return"

\* The required kwargs of a macro kind (the registry of the specification:
\* extract_path requires expr).
OmitsRequiredKwarg(d) ==
    /\ IsDict(d)
    /\ \E i \in 1..Len(d.items) :
          LET config == d.items[i].v IN
          /\ IsDict(config)
          /\ HasKey(config, K_macro)
          /\ HasKey(config, K_kwargs)
          /\ Get(config, K_macro) = JStr(ExtractPath)
          /\ IsDict(Get(config, K_kwargs))
          /\ ~HasKey(Get(config, K_kwargs), K_expr)

\* C2: validating a configuration whose invocation omits a required kwarg of
\* its macro kind ends with a validation error.
C2_MissingKwargRejected ==
    (vwho \in {"assistant", "classes"} /\ Len(vres) >= 1 /\ OmitsRequiredKwarg(vdoc))
        => vres[1].kind = "ValueError"

ChainedMacro == <<"s", "t", "a", "n", "d", "a", "r", "d", "_", "m", "a", "c", "r", "o", "s",
                  ".", "c", "h", "a", "i", "n", "e", "d", "_", "m", "a", "c", "r", "o">>
SubstituteTemplate == <<"a", "d", "a", "p", "t", "e", "r", "_", "m", "a", "c", "r", "o", "s",
                        ".", "s", "u", "b", "s", "t", "i", "t", "u", "t", "e", "_",
                        "t", "e", "m", "p", "l", "a", "t", "e">>

\* The macro kinds the specification's registry defines.
RegisteredKinds == {JStr(ExtractPath), JStr(ChainedMacro), JStr(SubstituteTemplate)}

\* Whether document d, in the format validator `who` expects, names a macro
\* kind that is not registered.
NamesUnregisteredMacro(who, d) ==
    /\ IsDict(d)
    /\ IF who = "script"
       THEN HasKey(d, K_macro) /\ Get(d, K_macro) \notin RegisteredKinds
       ELSE \E i \in 1..Len(d.items) :
               /\ IsDict(d.items[i].v)
               /\ HasKey(d.items[i].v, K_macro)
               /\ Get(d.items[i].v, K_macro) \notin RegisteredKinds

\* C3: validating a configuration that names an unregistered macro kind ends
\* with a validation error, so no such configuration is returned.
C3_UnknownMacroRejected ==
    (Len(vres) >= 1 /\ NamesUnregisteredMacro(vwho, vdoc)) => vres[1].kind = "ValueError"

\* C4: a response that is a JSON text J between code-fence markers is parsed
\* by generate_macro to exactly what J parses to, in both classes of src/classes.
C4_FencedResponseParses ==
    \A k \in FenceClasses :
        fres[k] # FencePending => fres[k].ok /\ fres[k].val = Loads(ftext).val

\* The part of C4 that concerns MacroAssistant.generate_macro alone.
C4_AssistantStripsFence ==
    fres["assistant"] # FencePending =>
        fres["assistant"].ok /\ fres["assistant"].val = Loads(ftext).val

\* C5: a validator returns the very document it was given, and applying it
\* to its own result gives that result again; a rejected document is rejected
\* with the same error again.
C5_ValidateIdempotent ==
    /\ (Len(vres) >= 1 /\ vres[1].kind = "return") => vres[1].doc = vdoc
    /\ Len(vres) = 2 => vres[2] = vres[1]

\* A document with a field was accepted twice by the MacroAssistant's validator.
C5_Witness ==
    /\ vwho = "assistant"
    /\ Len(vres) = 2
    /\ vres[2].kind = "return"
    /\ Len(vdoc.items) >= 1

\* Whether response i does not parse, or parses to what the validator rejects.
Unusable(k, i) ==
    IF k = "assistant"
    THEN LET l == AssistantLoad(ResponseText[i])
         IN  ~l.ok \/ MacroAssistant_validate_macro(l.val).kind # "return"
    ELSE IF k = "classes"
    THEN LET l == ClassesGeneratorLoad(ResponseText[i])
         IN  ~l.ok \/ ClassesGenerator_validate_macro(l.val).kind # "return"
    ELSE LET l == ScriptGeneratorLoad(ResponseText[i])
         IN  ~l.ok \/ ScriptGenerator_validate_macro(l.val).kind # "return"

\* C6: in every generate_macro a response that does not parse, or fails
\* validation, ends the call with an error raised and no configuration, and
\* the call makes no backend request after it (one completion request; one
\* thread, one run and nothing after messages.list).
C6_ParseAndValidationErrorsFatal ==
    /\ \A c \in Calls :
          (received[c] # 0 /\ Unusable("assistant", received[c])) =>
              /\ pc[c] = "raised"
              /\ outcome[c].kind = "ValueError"
              /\ outcome[c].doc = NoDoc
              /\ CountOp(c, "threads.create") = 1
              /\ CountOp(c, "runs.create") = 1
              /\ log[c][Len(log[c])][1] = "messages.list"
    /\ \A g \in Generators :
          (gen[g].content # 0 /\ Unusable(g, gen[g].content)) =>
              /\ gen[g].pc = "raised"
              /\ gen[g].outcome.kind = "ValueError"
              /\ gen[g].outcome.doc = NoDoc
              /\ gen[g].requests = 1

\* The MacroAssistant call got prose and both generators got a response they
\* parse but reject or cannot parse.
C6_Witness ==
    /\ received["c1"] # 0
    /\ ~AssistantLoad(ResponseText[received["c1"]]).ok
    /\ pc["c1"] = "raised"
    /\ gen["script"].content # 0
    /\ ScriptGeneratorLoad(ResponseText[gen["script"].content]).ok
    /\ gen["script"].pc = "raised"
    /\ gen["classes"].pc = "raised"

\* C7: every request a call makes after creating its thread names the thread
\* that this call created.
C7_OwnThreadOnly ==
    \A c \in Calls : \A i \in 1..Len(log[c]) : log[c][i][2] = log[c][1][2]

\* C8: the requests of a call are threads.create, messages.create,
\* runs.create, then runs.retrieve one or more times, then at most one
\* messages.list; messages are listed and a configuration returned only after
\* a poll observed 'completed'; after a poll observed 'failed', 'cancelled' or
\* 'expired' the call has raised and never lists the messages.
C8_StepOrder ==
    \A c \in Calls :
        /\ \A i \in 1..Len(log[c]) :
              /\ i = 1 => Ops(c)[i] = "threads.create"
              /\ i = 2 => Ops(c)[i] = "messages.create"
              /\ i = 3 => Ops(c)[i] = "runs.create"
              /\ i = 4 => Ops(c)[i] = "runs.retrieve"
              /\ i > 4 => /\ Ops(c)[i] \in {"runs.retrieve", "messages.list"}
                          /\ Ops(c)[i - 1] = "runs.retrieve"
        /\ HasOp(c, "messages.list") => seen[c] = "completed"
        /\ pc[c] = "returned" =>
              /\ HasOp(c, "messages.list")
              /\ seen[c] = "completed"
              /\ outcome[c].kind = "return"
        /\ seen[c] \in {"failed", "cancelled", "expired"} =>
              /\ pc[c] = "raised"
              /\ outcome[c].kind = "ValueError"
              /\ ~HasOp(c, "messages.list")

\* One call returned a configuration and the other raised on a failed run.
C8_Witness ==
    \E c \in Calls : \E d \in Calls :
        /\ pc[c] = "returned"
        /\ seen[d] = "failed"
        /\ pc[d] = "raised"

\* C9: once the run of a call has a final status the call ends; and a poll
\* leaves the loop exactly when it observes a final status, so a call whose
\* polls observe other statuses keeps polling.
C9_Terminates ==
    /\ \A c \in Calls :
          (run[c] # 0 /\ runs[run[c]].status \in Terminal) ~> Done(c)
    /\ [][\A c \in Calls :
             (pc[c] = "poll" /\ log'[c] # log[c]) =>
                 (pc'[c] = "poll" <=> seen'[c] \notin Terminal)]_vars

\* A call polled an unfinished run as often as the bound allows and then ended.
C9_Witness ==
    \E c \in Calls : CountOp(c, "runs.retrieve") > MaxPolls /\ Done(c)

\* C10: every document generate_macro of the script's MacroGenerator returns
\* has both a 'macro' field and a 'kwargs' field.
C10_ScriptReturnsMacroAndKwargs ==
    gen["script"].outcome.kind = "return" =>
        /\ HasKey(gen["script"].outcome.doc, K_macro)
        /\ HasKey(gen["script"].outcome.doc, K_kwargs)

====
